---- MODULE Spec2Model ----
(***************************************************************************)
(* Batch CSR generator (src-tauri/src/csr_generator.rs).                   *)
(*                                                                         *)
(* Strings that the code inspects character by character (the range        *)
(* expression, the subject template, the common names) are sequences of    *)
(* one-character strings.  Strings that are only copied or compared as a   *)
(* whole (key type, hash token, unique id, sans, ...) are TLA+ strings.    *)
(* A key pair is the serial number of the key generation that made it:     *)
(* the random generator never repeats a key.                               *)
(***************************************************************************)
EXTENDS Integers, Sequences, FiniteSets, TLC

VARIABLES
    params,      \* GenerateParams of the call
    pc,          \* position in the function under execution
    cn_list,     \* parse_cn_range's result (generate_csr_batch_internal: cn_list)
    pos,         \* number of names the for loop has consumed
    results,     \* Vec<CsrResult> assembled so far
    calls,       \* common names generate_csr was invoked with, in order
    keygens,     \* number of key pairs generated so far
    failed_at,   \* 0, or the position of the name whose generate_csr failed
    csv_calls,   \* number of write_to_csv invocations
    file,        \* what this run made of the output file
    ret          \* the value returned to the caller

vars == <<params, pc, cn_list, pos, results, calls, keygens, failed_at,
          csv_calls, file, ret>>

----------------------------------------------------------------------------
(* Bounds of the model *)

\* longest range expression enumerated exhaustively
MaxLen == 6

\* longest identity sequence handed to write_to_csv on its own
MaxRows == 2

----------------------------------------------------------------------------
(* Characters *)

UpperLetters == {"A","B","C","D","E","F","G","H","I","J","K","L","M",
                 "N","O","P","Q","R","S","T","U","V","W","X","Y","Z"}

LowerLetters == {"a","b","c","d","e","f","g","h","i","j","k","l","m",
                 "n","o","p","q","r","s","t","u","v","w","x","y","z"}

\* [A-Za-z]
Letters == UpperLetters \cup LowerLetters

DigitChars == <<"0","1","2","3","4","5","6","7","8","9">>

AsciiDigits == {DigitChars[k] : k \in 1..10}

\* \d of the regex crate is Unicode-aware: it also matches decimal digits
\* outside ASCII, which u32::from_str then rejects.
UnicodeDigits == AsciiDigits \cup {"ARABIC-INDIC-3"}

DigitValue(c) == (CHOOSE k \in 1..10 : DigitChars[k] = c) - 1

----------------------------------------------------------------------------
(* u32 parsing and formatting *)

\* u32::MAX as its decimal digits
U32MaxDigits == <<4,2,9,4,9,6,7,2,9,5>>

RECURSIVE StripZeros(_)
StripZeros(ds) ==
    IF Len(ds) > 1 /\ ds[1] = "0" THEN StripZeros(Tail(ds)) ELSE ds

RECURSIVE DigitsLeq(_, _, _)
\* lexicographic comparison of two digit strings of equal length, from k on
DigitsLeq(ds, bound, k) ==
    IF k > Len(ds) THEN TRUE
    ELSE IF DigitValue(ds[k]) < bound[k] THEN TRUE
    ELSE IF DigitValue(ds[k]) > bound[k] THEN FALSE
    ELSE DigitsLeq(ds, bound, k + 1)

RECURSIVE DigitsValue(_)
DigitsValue(ds) ==
    IF Len(ds) = 0 THEN 0
    ELSE 10 * DigitsValue(SubSeq(ds, 1, Len(ds) - 1)) + DigitValue(ds[Len(ds)])

\* str::parse::<u32>: an error on a character that is no ASCII digit and on a
\* value above u32::MAX (decided on the digits, as the checked arithmetic of
\* the parser decides it).
ParseU32(ds) ==
    IF \E k \in 1..Len(ds) : ds[k] \notin AsciiDigits
      THEN [ok |-> FALSE, value |-> 0]
    ELSE LET sig == StripZeros(ds) IN
      IF Len(sig) > Len(U32MaxDigits)
         \/ (Len(sig) = Len(U32MaxDigits) /\ ~DigitsLeq(sig, U32MaxDigits, 1))
        THEN [ok |-> FALSE, value |-> 0]
        ELSE [ok |-> TRUE, value |-> DigitsValue(sig)]

RECURSIVE ToDigits(_)
\* decimal rendering of an unsigned number
ToDigits(n) ==
    IF n < 10 THEN <<DigitChars[n + 1]>>
    ELSE ToDigits(n \div 10) \o <<DigitChars[(n % 10) + 1]>>

RECURSIVE Zeros(_)
Zeros(n) == IF n <= 0 THEN <<>> ELSE <<"0">> \o Zeros(n - 1)

\* a rendering that leaves the zero padding out
FormatUnpadded(i, width) == ToDigits(i)

\* a rendering at exactly width characters: the low digits of a longer number
FormatTruncated(i, width) ==
    LET ds == Zeros(width - Len(ToDigits(i))) \o ToDigits(i)
    IN  SubSeq(ds, Len(ds) - width + 1, Len(ds))

\* format!("{:0width$}", i): width is a minimum, filled with zeros on the left
FormatPadded(i, width) ==
    LET ds == ToDigits(i) IN Zeros(width - Len(ds)) \o ds

----------------------------------------------------------------------------
(* parse_cn_range *)

RECURSIVE RunLen(_, _, _)
\* length of the longest run of characters of class C in s from index from
RunLen(s, from, C) ==
    IF from > Len(s) \/ s[from] \notin C THEN 0
    ELSE 1 + RunLen(s, from + 1, C)

\* ^([A-Za-z]+)(\d+)-([A-Za-z]+)(\d+)$ : the classes are disjoint, so the only
\* possible match takes the longest run for every group.
Captures(range) ==
    LET l1 == RunLen(range, 1, Letters)
        d1 == RunLen(range, 1 + l1, UnicodeDigits)
        h  == 1 + l1 + d1
        l2 == RunLen(range, h + 1, Letters)
        d2 == RunLen(range, h + 1 + l2, UnicodeDigits)
    IN  IF /\ l1 >= 1 /\ d1 >= 1
           /\ h <= Len(range) /\ range[h] = "-"
           /\ l2 >= 1 /\ d2 >= 1
           /\ h + l2 + d2 = Len(range)
        THEN [matched  |-> TRUE,
              prefix1  |-> SubSeq(range, 1, l1),
              num_str1 |-> SubSeq(range, l1 + 1, l1 + d1),
              prefix2  |-> SubSeq(range, h + 1, h + l2),
              num_str2 |-> SubSeq(range, h + l2 + 1, h + l2 + d2)]
        ELSE [matched  |-> FALSE, prefix1 |-> <<>>, num_str1 |-> <<>>,
              prefix2  |-> <<>>, num_str2 |-> <<>>]

RangeErr(e) == [ok |-> FALSE, err |-> e, names |-> <<>>]

\* the endpoints taken in the order they were written
OrderedEndpointsNoSwap(start, end) == <<start, end>>

\* let (start, end) = if start > end { (end, start) } else { (start, end) }
OrderedEndpoints(start, end) ==
    IF start > end THEN <<end, start>> ELSE <<start, end>>

\* let num_length = num_str1.len()
NumLength(num_str1, num_str2) == Len(num_str1)

parse_cn_range(range) ==
    LET caps == Captures(range) IN
    IF ~caps.matched THEN RangeErr("MalformedRange")
    ELSE LET s == ParseU32(caps.num_str1)
             e == ParseU32(caps.num_str2)
         IN  IF ~s.ok \/ ~e.ok THEN RangeErr("ParseInt")
             ELSE LET se == OrderedEndpoints(s.value, e.value)
                      num_length == NumLength(caps.num_str1, caps.num_str2)
                  IN  [ok    |-> TRUE,
                       err   |-> "",
                       names |-> [k \in 1..(se[2] - se[1] + 1) |->
                                    caps.prefix1 \o
                                    FormatPadded(se[1] + k - 1, num_length)]]

----------------------------------------------------------------------------
(* KeyType *)

KeyTypeNone == "None"

\* KeyType::from_str: exact, case-sensitive match of six tokens
KeyTypeFromStr(s) ==
    CASE s = "RSA_2048" -> [ok |-> TRUE, key_type |-> "Rsa2048"]
      [] s = "RSA_3072" -> [ok |-> TRUE, key_type |-> "Rsa3072"]
      [] s = "RSA_4096" -> [ok |-> TRUE, key_type |-> "Rsa4096"]
      [] s = "EC_P256"  -> [ok |-> TRUE, key_type |-> "EcP256"]
      [] s = "EC_P384"  -> [ok |-> TRUE, key_type |-> "EcP384"]
      [] s = "EC_P521"  -> [ok |-> TRUE, key_type |-> "EcP521"]
      [] OTHER          -> [ok |-> FALSE, key_type |-> KeyTypeNone]

\* KeyType::display_name
display_name(key_type) ==
    CASE key_type = "Rsa2048" -> "RSA_2048"
      [] key_type = "Rsa3072" -> "RSA_3072"
      [] key_type = "Rsa4096" -> "RSA_4096"
      [] key_type = "EcP256"  -> "EC_P-256"
      [] key_type = "EcP384"  -> "EC_P-384"
      [] key_type = "EcP521"  -> "EC_P-521"

----------------------------------------------------------------------------
(* generate_csr *)

\* let digest = match sign_hash_alg { ... }
Digest(sign_hash_alg) ==
    CASE sign_hash_alg = "SHA384" -> "sha384"
      [] sign_hash_alg = "SHA512" -> "sha512"
      [] sign_hash_alg = "SHA1"   -> "sha1"
      [] OTHER                    -> "sha256"

\* a generator that keeps one key pair per algorithm and hands it out again
CachedKey(key_type, serial) == [alg |-> key_type, id |-> 1]

\* Rsa::generate / EcKey::generate: serial is the number of this key
\* generation, so every generation yields a key pair of its own
GenerateKey(key_type, serial) == [alg |-> key_type, id |-> serial]

\* Ok((csr_pem, private_key_pem)) of generate_csr: the request carries only
\* CN as its subject, the public key, and a signature by the same key
generate_csr(cn, key_type, sign_hash_alg, serial) ==
    LET pkey == GenerateKey(key_type, serial) IN
    [csr_pem         |-> [subject_cn |-> cn, pubkey |-> pkey,
                          signed_by |-> pkey, digest |-> Digest(sign_hash_alg)],
     private_key_pem |-> pkey]

----------------------------------------------------------------------------
(* write_to_csv *)

\* let has_unique_id = results.iter().any(|r| !r.unique_id.is_empty())
has_unique_id(rs) == \E k \in 1..Len(rs) : rs[k].unique_id # ""

\* let has_sans = results.iter().any(|r| !r.sans.is_empty())
has_sans(rs) == \E k \in 1..Len(rs) : rs[k].sans # ""

Headers(rs) ==
    <<"subject", "signHashAlg", "notBefore", "notAfter">>
    \o (IF has_unique_id(rs) THEN <<"uniqueId">> ELSE <<>>)
    \o (IF has_sans(rs) THEN <<"sans">> ELSE <<>>)
    \o <<"csr", "keyPairType", "privateKey">>

\* a record that leaves the optional cell out when the row's own value is empty
RecordPerRow(result, with_unique_id, with_sans) ==
    <<result.subject, result.sign_hash_alg, result.not_before, result.not_after>>
    \o (IF with_unique_id /\ result.unique_id # "" THEN <<result.unique_id>> ELSE <<>>)
    \o (IF with_sans /\ result.sans # "" THEN <<result.sans>> ELSE <<>>)
    \o <<result.csr_pem, result.key_pair_type, result.private_key_pem>>

\* the record of one result: the optional cells follow the batch-wide flags
Record(result, with_unique_id, with_sans) ==
    <<result.subject, result.sign_hash_alg, result.not_before, result.not_after>>
    \o (IF with_unique_id THEN <<result.unique_id>> ELSE <<>>)
    \o (IF with_sans THEN <<result.sans>> ELSE <<>>)
    \o <<result.csr_pem, result.key_pair_type, result.private_key_pem>>

\* the records of the file a successful write_to_csv leaves: the header, then
\* one record per result, in order (cells are the values a CSV reader gets
\* back; the writer's quoting is below this model)
write_to_csv(rs) ==
    <<Headers(rs)>> \o
    [k \in 1..Len(rs) |-> Record(rs[k], has_unique_id(rs), has_sans(rs))]

NoFile == [created |-> FALSE, complete |-> FALSE, lines |-> <<>>]

----------------------------------------------------------------------------
(* generate_csr_batch_internal *)

Placeholder == <<"{", "C", "N", "}">>

RECURSIVE Replace(_, _, _)
\* template[k..].replace("{CN}", cn): every occurrence, left to right
Replace(template, k, cn) ==
    IF k > Len(template) THEN <<>>
    ELSE IF k + Len(Placeholder) - 1 <= Len(template)
            /\ SubSeq(template, k, k + Len(Placeholder) - 1) = Placeholder
         THEN cn \o Replace(template, k + Len(Placeholder), cn)
         ELSE <<template[k]>> \o Replace(template, k + 1, cn)

\* let sign_hash_alg = if params.sign_hash_alg == "MatchIssuer" { "SHA256" } ...
NormalizedHash(p) ==
    IF p.sign_hash_alg = "MatchIssuer" THEN "SHA256" ELSE p.sign_hash_alg

\* CsrResult { ... sign_hash_alg: params.sign_hash_alg.clone(), ... }
RecordedHash(p) == p.sign_hash_alg

CsrResult(p, cn, key_type, pems) ==
    [cn              |-> cn,
     subject         |-> Replace(p.subject_template, 1, cn),
     sign_hash_alg   |-> RecordedHash(p),
     not_before      |-> p.not_before,
     not_after       |-> p.not_after,
     unique_id       |-> p.unique_id,
     sans            |-> p.sans,
     csr_pem         |-> pems.csr_pem,
     key_pair_type   |-> display_name(key_type),
     private_key_pem |-> pems.private_key_pem]

NoRet == [ok |-> FALSE, err |-> "", success |-> FALSE, total |-> 0,
          message |-> <<>>, output_path |-> ""]

Err(e) == [NoRet EXCEPT !.err = e]

\* Ok(GenerateResult { success: true, message, total, output_path })
OkResult(p, rs) ==
    [ok |-> TRUE, err |-> "", success |-> TRUE, total |-> Len(rs),
     message |-> <<"generated", Len(rs), "CSR">>,
     output_path |-> p.output_path]

----------------------------------------------------------------------------
(* Inputs *)

BaseParams ==
    [cn_range         |-> <<"A", "1", "-", "A", "2">>,
     subject_template |-> <<"C", "N", "=", "{", "C", "N", "}">>,
     key_type         |-> "EC_P256",
     sign_hash_alg    |-> "SHA256",
     not_before       |-> "2024-01-01T00:00:00Z",
     not_after        |-> "2025-01-01T00:00:00Z",
     unique_id        |-> "",
     sans             |-> "",
     output_path      |-> "out.csv"]

\* characters the range expressions are enumerated over: two letters of
\* different case, digits that carry into a further digit, and the hyphen
RangeAlphabet == {"A", "b", "0", "1", "9", "-"}

\* expressions beyond the enumerated length: numbers around u32::MAX, more
\* than ten digits with leading zeros, a digit outside ASCII
LongRanges ==
    {<<"A","4","2","9","4","9","6","7","2","9","6","-","A","1">>,
     <<"A","1","-","A","4","2","9","4","9","6","7","2","9","6">>,
     <<"A","9","9","9","9","9","9","9","9","9","9","9","-","A","1">>,
     <<"A","0","0","0","0","0","0","0","0","0","0","2","-","A","1">>,
     <<"A","ARABIC-INDIC-3","-","A","1">>,
     <<"Y","D","L","0","0","0","1","-","Y","D","L","0","0","1","0">>,
     <<"Y","D","L","0","0","1","0","-","Y","D","L","0","0","0","1">>,
     <<"Y","D","L","0","0","0","5","-","Y","D","L","0","0","0","5">>,
     <<"Y","D","L","0","0","0","1","-">>}

RangeInputs ==
    UNION {[1..n -> RangeAlphabet] : n \in 1..MaxLen} \cup LongRanges

\* range expressions of the batches: ascending, descending, single, widths
\* that differ, prefixes that differ, malformed, overflowing
BatchRanges ==
    {<<"A","1","-","A","3">>,
     <<"A","3","-","A","1">>,
     <<"A","2","-","A","2">>,
     <<"A","9","-","A","1","0">>,
     <<"A","0","1","-","b","2">>,
     <<"A","1","-">>,
     <<"1","-","2">>,
     <<"A","-","A","1">>,
     <<"A","4","2","9","4","9","6","7","2","9","6","-","A","1">>}

\* longest range expression of the batches that are enumerated exhaustively
MaxLenBatch == 5

ShortRanges == UNION {[1..n -> RangeAlphabet] : n \in 1..MaxLenBatch}

BatchKeyTypes == {"RSA_2048", "EC_P256", "INVALID", "rsa_2048"}

BatchHashes == {"MatchIssuer", "SHA256", "SHA384"}

BatchTemplates ==
    {<<"C","N","=","{","C","N","}">>,
     <<"O","=","x">>,
     <<"{","C","N","}",",","{","C","N">>}

OptionalValues(v) == {"", v}

----------------------------------------------------------------------------
(* State machine of generate_csr_batch_internal *)

Init ==
    /\ params \in {[BaseParams EXCEPT !.cn_range = r, !.key_type = k,
                                      !.sign_hash_alg = h, !.unique_id = u,
                                      !.sans = s, !.subject_template = t] :
                     r \in BatchRanges, k \in BatchKeyTypes, h \in BatchHashes,
                     u \in OptionalValues("U1"), s \in OptionalValues("S1"),
                     t \in BatchTemplates}
                  \cup {[BaseParams EXCEPT !.cn_range = r] : r \in ShortRanges}
    /\ pc = "start"
    /\ cn_list = <<>>
    /\ pos = 0
    /\ results = <<>>
    /\ calls = <<>>
    /\ keygens = 0
    /\ failed_at = 0
    /\ csv_calls = 0
    /\ file = NoFile
    /\ ret = NoRet

Fail(e) ==
    /\ pc' = "failed"
    /\ ret' = Err(e)

\* the same with the output file opened before the inputs are validated
BeginCreateFileFirst ==
    /\ pc = "start"
    /\ file' = [created |-> TRUE, complete |-> FALSE, lines |-> <<>>]
    /\ LET kt == KeyTypeFromStr(params.key_type)
           r  == parse_cn_range(params.cn_range)
       IN  IF ~kt.ok THEN Fail("UnsupportedKeyType") /\ cn_list' = cn_list
           ELSE IF ~r.ok THEN Fail(r.err) /\ cn_list' = cn_list
           ELSE IF r.names = <<>> THEN Fail("EmptyRange") /\ cn_list' = r.names
           ELSE /\ pc' = "loop"
                /\ cn_list' = r.names
                /\ ret' = ret
    /\ UNCHANGED <<params, pos, results, calls, keygens, failed_at, csv_calls>>

\* KeyType::from_str(..)?, parse_cn_range(..)?, the is_empty check
Begin ==
    /\ pc = "start"
    /\ LET kt == KeyTypeFromStr(params.key_type)
           r  == parse_cn_range(params.cn_range)
       IN  IF ~kt.ok THEN Fail("UnsupportedKeyType") /\ cn_list' = cn_list
           ELSE IF ~r.ok THEN Fail(r.err) /\ cn_list' = cn_list
           ELSE IF r.names = <<>> THEN Fail("EmptyRange") /\ cn_list' = r.names
           ELSE /\ pc' = "loop"
                /\ cn_list' = r.names
                /\ ret' = ret
    /\ UNCHANGED <<params, pos, results, calls, keygens, failed_at,
                   csv_calls, file>>

\* a push that puts the new result in front
PushFront(rs, r) == <<r>> \o rs

\* results.push(CsrResult { .. })
Push(rs, r) == Append(rs, r)

\* one iteration of `for cn in &cn_list` in which generate_csr returns Ok
GenerateCsrOk ==
    /\ pc = "loop"
    /\ pos < Len(cn_list)
    /\ LET cn   == cn_list[pos + 1]
           kt   == KeyTypeFromStr(params.key_type).key_type
           pems == generate_csr(cn, kt, NormalizedHash(params), keygens + 1)
       IN  /\ calls' = Append(calls, cn)
           /\ keygens' = keygens + 1
           /\ results' = Push(results, CsrResult(params, cn, kt, pems))
    /\ pos' = pos + 1
    /\ pc' = IF pos + 1 = Len(cn_list) THEN "write" ELSE "loop"
    /\ UNCHANGED <<params, cn_list, failed_at, csv_calls, file, ret>>

\* an iteration that drops the failing name and goes on with the next
GenerateCsrSkip ==
    /\ pc = "loop"
    /\ pos < Len(cn_list)
    /\ calls' = Append(calls, cn_list[pos + 1])
    /\ \E keyed \in BOOLEAN : keygens' = keygens + (IF keyed THEN 1 ELSE 0)
    /\ failed_at' = pos + 1
    /\ pos' = pos + 1
    /\ pc' = IF pos + 1 = Len(cn_list) THEN "write" ELSE "loop"
    /\ UNCHANGED <<params, cn_list, results, csv_calls, file, ret>>

\* generate_csr(..)? returns Err: the function returns at once.  The failure
\* comes before the key pair exists (key generation) or after (name, signing,
\* encoding).
GenerateCsrFail ==
    /\ pc = "loop"
    /\ pos < Len(cn_list)
    /\ calls' = Append(calls, cn_list[pos + 1])
    /\ \E keyed \in BOOLEAN : keygens' = keygens + (IF keyed THEN 1 ELSE 0)
    /\ failed_at' = pos + 1
    /\ Fail("Crypto")
    /\ UNCHANGED <<params, cn_list, pos, results, csv_calls, file>>

\* write_to_csv(&results, &params.output_path)? succeeds; Ok(GenerateResult)
WriteCsvOk ==
    /\ pc = "write"
    /\ csv_calls' = csv_calls + 1
    /\ file' = [created |-> TRUE, complete |-> TRUE,
                lines |-> write_to_csv(results)]
    /\ ret' = OkResult(params, results)
    /\ pc' = "done"
    /\ UNCHANGED <<params, cn_list, pos, results, calls, keygens, failed_at>>

\* write_to_csv fails: File::create fails and leaves no file, or a write or
\* the flush fails and leaves some leading part of the records
WriteCsvFail ==
    /\ pc = "write"
    /\ csv_calls' = csv_calls + 1
    /\ \/ file' = NoFile
       \/ \E n \in 0..Len(write_to_csv(results)) :
             file' = [created |-> TRUE, complete |-> FALSE,
                      lines |-> SubSeq(write_to_csv(results), 1, n)]
    /\ Fail("Io")
    /\ UNCHANGED <<params, cn_list, pos, results, calls, keygens, failed_at>>

Next ==
    \/ Begin
    \/ GenerateCsrOk
    \/ GenerateCsrFail
    \/ WriteCsvOk
    \/ WriteCsvFail

Spec == Init /\ [][Next]_vars

----------------------------------------------------------------------------
(* parse_cn_range on its own *)

InitRange ==
    /\ params \in {[BaseParams EXCEPT !.cn_range = r] : r \in RangeInputs}
    /\ pc = "range_call"
    /\ cn_list = <<>>
    /\ pos = 0
    /\ results = <<>>
    /\ calls = <<>>
    /\ keygens = 0
    /\ failed_at = 0
    /\ csv_calls = 0
    /\ file = NoFile
    /\ ret = NoRet

CallParseCnRange ==
    /\ pc = "range_call"
    /\ LET r == parse_cn_range(params.cn_range)
       IN  /\ cn_list' = r.names
           /\ ret' = [NoRet EXCEPT !.ok = r.ok, !.err = r.err]
    /\ pc' = "range_done"
    /\ UNCHANGED <<params, pos, results, calls, keygens, failed_at,
                   csv_calls, file>>

NextRange == CallParseCnRange

SpecRange == InitRange /\ [][NextRange]_vars

----------------------------------------------------------------------------
(* write_to_csv on its own *)

CsvNames == {<<"A", "1">>, <<"A", "2">>}

\* identities whose optional fields differ from row to row
CsvIdentities ==
    {CsrResult([BaseParams EXCEPT !.unique_id = u, !.sans = s], cn, "EcP256",
               generate_csr(cn, "EcP256", "SHA256", 1)) :
       u \in OptionalValues("U1"), s \in OptionalValues("S1"), cn \in CsvNames}

InitCsv ==
    /\ params = BaseParams
    /\ pc = "csv_call"
    /\ cn_list = <<>>
    /\ pos = 0
    /\ results \in UNION {[1..n -> CsvIdentities] : n \in 0..MaxRows}
    /\ calls = <<>>
    /\ keygens = 0
    /\ failed_at = 0
    /\ csv_calls = 0
    /\ file = NoFile
    /\ ret = NoRet

CallWriteToCsv ==
    /\ pc = "csv_call"
    /\ csv_calls' = csv_calls + 1
    /\ file' = [created |-> TRUE, complete |-> TRUE,
                lines |-> write_to_csv(results)]
    /\ ret' = [NoRet EXCEPT !.ok = TRUE]
    /\ pc' = "csv_done"
    /\ UNCHANGED <<params, cn_list, pos, results, calls, keygens, failed_at>>

NextCsv == CallWriteToCsv

SpecCsv == InitCsv /\ [][NextCsv]_vars

----------------------------------------------------------------------------
(* What the claims speak of *)

\* the data rows of the output file (every line after the header)
DataRows == SubSeq(file.lines, 2, Len(file.lines))

\* the position of a column in the header of the output file
ColumnOf(name) == CHOOSE j \in 1..Len(file.lines[1]) : file.lines[1][j] = name

Max(a, b) == IF a >= b THEN a ELSE b

Min(a, b) == IF a <= b THEN a ELSE b

\* the expression matched and both numbers fit u32
ValidRange(range) ==
    /\ Captures(range).matched
    /\ ParseU32(Captures(range).num_str1).ok
    /\ ParseU32(Captures(range).num_str2).ok

FirstNumber(range) == ParseU32(Captures(range).num_str1).value

SecondNumber(range) == ParseU32(Captures(range).num_str2).value

SameWidth(range) ==
    Len(Captures(range).num_str1) = Len(Captures(range).num_str2)

\* the expression with its two endpoints exchanged
Exchanged(range) ==
    LET c == Captures(range)
    IN  c.prefix2 \o c.num_str2 \o <<"-">> \o c.prefix1 \o c.num_str1

\* the characters of a name after a prefix of length n
Suffix(name, n) == SubSeq(name, n + 1, Len(name))

IsNumeral(ds) == Len(ds) >= 1 /\ \A k \in 1..Len(ds) : ds[k] \in AsciiDigits

RECURSIVE NumDigits(_)
\* number of decimal digits of n
NumDigits(n) == IF n < 10 THEN 1 ELSE 1 + NumDigits(n \div 10)

----------------------------------------------------------------------------
(* C1 *)

\* C1: after a batch that succeeded with sign_hash_alg = "MatchIssuer", every
\* exported row's signHashAlg cell reads "SHA256" and none reads "MatchIssuer".
C1_MatchIssuerExportedAsSHA256 ==
    (pc = "done" /\ params.sign_hash_alg = "MatchIssuer") =>
        \A k \in 1..Len(DataRows) :
            /\ DataRows[k][ColumnOf("signHashAlg")] = "SHA256"
            /\ DataRows[k][ColumnOf("signHashAlg")] # "MatchIssuer"

----------------------------------------------------------------------------
(* C2 *)

\* C2: a call with an unsupported key type, or with a cn_range that is
\* malformed or whose numbers overflow, fails with an error, and when it has
\* failed no key pair was generated, generate_csr and write_to_csv were never
\* invoked and the output file was neither created nor written.
C2_FailFastBeforeKeysAndFile ==
    (/\ pc # "start"
     /\ \/ ~KeyTypeFromStr(params.key_type).ok
        \/ ~parse_cn_range(params.cn_range).ok) =>
        /\ pc = "failed"
        /\ ~ret.ok /\ ~ret.success
        /\ ret.err \in {"UnsupportedKeyType", "MalformedRange", "ParseInt"}
        /\ keygens = 0
        /\ calls = <<>>
        /\ csv_calls = 0
        /\ file = NoFile

\* a supported key type with the malformed range "A1-" has failed
C2_Witness ==
    /\ pc = "failed"
    /\ params.cn_range = <<"A", "1", "-">>
    /\ KeyTypeFromStr(params.key_type).ok
    /\ ret.err = "MalformedRange"
    /\ keygens = 0

----------------------------------------------------------------------------
(* C3 *)

\* C3: once generate_csr has failed for the name at some position, the call
\* has returned an error, generate_csr was invoked for no later name,
\* write_to_csv was never invoked, no output file exists and no success result
\* was returned.
C3_CryptoFailureAbortsBatch ==
    failed_at # 0 =>
        /\ pc = "failed"
        /\ ~ret.ok /\ ~ret.success
        /\ ret.err = "Crypto"
        /\ Len(calls) = failed_at
        /\ Len(results) = failed_at - 1
        /\ csv_calls = 0
        /\ file = NoFile

\* the second of three names failed after the first had succeeded
C3_Witness ==
    /\ failed_at = 2
    /\ Len(cn_list) = 3
    /\ Len(results) = 1
    /\ pc = "failed"

----------------------------------------------------------------------------
(* C4 *)

\* C4: for a valid expression whose two numbers have the same literal width,
\* parse_cn_range returns |a-b|+1 names in strictly ascending numeric order,
\* the k-th being the first prefix followed by min(a,b)+k-1 zero-padded to
\* that width.
C4_EqualWidthExpansion ==
    (/\ pc = "range_done"
     /\ ValidRange(params.cn_range)
     /\ SameWidth(params.cn_range)) =>
        LET c  == Captures(params.cn_range)
            a  == FirstNumber(params.cn_range)
            b  == SecondNumber(params.cn_range)
            w  == Len(c.num_str1)
            pl == Len(c.prefix1)
        IN  /\ ret.ok
            /\ Len(cn_list) = Max(a, b) - Min(a, b) + 1
            /\ \A k \in 1..Len(cn_list) :
                 /\ Len(cn_list[k]) = pl + w
                 /\ SubSeq(cn_list[k], 1, pl) = c.prefix1
                 /\ IsNumeral(Suffix(cn_list[k], pl))
                 /\ DigitsValue(Suffix(cn_list[k], pl)) = Min(a, b) + k - 1
            /\ \A k \in 1..(Len(cn_list) - 1) :
                 DigitsValue(Suffix(cn_list[k], pl)) <
                 DigitsValue(Suffix(cn_list[k + 1], pl))

\* "YDL0010-YDL0001" has expanded to the ten names YDL0001 .. YDL0010
C4_Witness ==
    /\ pc = "range_done"
    /\ params.cn_range =
         <<"Y","D","L","0","0","1","0","-","Y","D","L","0","0","0","1">>
    /\ Len(cn_list) = 10
    /\ cn_list[1] = <<"Y","D","L","0","0","0","1">>
    /\ cn_list[10] = <<"Y","D","L","0","0","1","0">>

----------------------------------------------------------------------------
(* C5 *)

\* C5 as stated: for every valid expression P<a>-P<b>, the expression with
\* the endpoints exchanged expands to the same sequence of names.
C5_EndpointOrderInsensitive ==
    (/\ pc = "range_done"
     /\ ValidRange(params.cn_range)
     /\ Captures(params.cn_range).prefix1 = Captures(params.cn_range).prefix2) =>
        /\ parse_cn_range(Exchanged(params.cn_range)).ok
        /\ parse_cn_range(Exchanged(params.cn_range)).names = cn_list

\* C5 amended: for every valid expression P<a>-P<b> whose two numbers have the
\* same literal width, the expression with the endpoints exchanged expands to
\* the same sequence of names.
C5_EndpointOrderInsensitiveSameWidth ==
    (/\ pc = "range_done"
     /\ ValidRange(params.cn_range)
     /\ Captures(params.cn_range).prefix1 = Captures(params.cn_range).prefix2
     /\ SameWidth(params.cn_range)) =>
        /\ parse_cn_range(Exchanged(params.cn_range)).ok
        /\ parse_cn_range(Exchanged(params.cn_range)).names = cn_list

\* "b9-b0", written descending, has expanded to b0 .. b9
C5_Witness ==
    /\ pc = "range_done"
    /\ params.cn_range = <<"b", "9", "-", "b", "0">>
    /\ Len(cn_list) = 10
    /\ cn_list[1] = <<"b", "0">>
    /\ parse_cn_range(<<"b", "0", "-", "b", "9">>).names = cn_list

----------------------------------------------------------------------------
(* C6 *)

\* the field of an identity that a column of the export shows
FieldOf(result, column) ==
    CASE column = "subject"     -> result.subject
      [] column = "signHashAlg" -> result.sign_hash_alg
      [] column = "notBefore"   -> result.not_before
      [] column = "notAfter"    -> result.not_after
      [] column = "uniqueId"    -> result.unique_id
      [] column = "sans"        -> result.sans
      [] column = "csr"         -> result.csr_pem
      [] column = "keyPairType" -> result.key_pair_type
      [] column = "privateKey"  -> result.private_key_pem

\* C6: the header is subject, signHashAlg, notBefore, notAfter, then uniqueId
\* iff some identity has a non-empty unique_id, then sans iff some identity has
\* a non-empty sans, then csr, keyPairType, privateKey; every data row has one
\* cell per header column, in the header's order, holding the identity's own
\* value even when that is empty.
C6_HeaderAndRowsFollowBatchSchema ==
    pc = "csv_done" =>
        LET anyUid  == \E k \in 1..Len(results) : results[k].unique_id # ""
            anySans == \E k \in 1..Len(results) : results[k].sans # ""
            header  == file.lines[1]
        IN  /\ header =
                 CASE anyUid /\ anySans ->
                        <<"subject", "signHashAlg", "notBefore", "notAfter",
                          "uniqueId", "sans", "csr", "keyPairType", "privateKey">>
                   [] anyUid /\ ~anySans ->
                        <<"subject", "signHashAlg", "notBefore", "notAfter",
                          "uniqueId", "csr", "keyPairType", "privateKey">>
                   [] ~anyUid /\ anySans ->
                        <<"subject", "signHashAlg", "notBefore", "notAfter",
                          "sans", "csr", "keyPairType", "privateKey">>
                   [] OTHER ->
                        <<"subject", "signHashAlg", "notBefore", "notAfter",
                          "csr", "keyPairType", "privateKey">>
            /\ Len(DataRows) = Len(results)
            /\ \A k \in 1..Len(results) :
                 /\ Len(DataRows[k]) = Len(header)
                 /\ \A j \in 1..Len(header) :
                      DataRows[k][j] = FieldOf(results[k], header[j])

\* two identities, only the second with a sans: both rows have a sans cell,
\* the first one empty, and there is no uniqueId column
C6_Witness ==
    /\ pc = "csv_done"
    /\ Len(results) = 2
    /\ results[1].sans = "" /\ results[2].sans # ""
    /\ results[1].unique_id = "" /\ results[2].unique_id = ""
    /\ Len(file.lines[1]) = 8
    /\ DataRows[1][5] = ""
    /\ DataRows[2][5] = "S1"

----------------------------------------------------------------------------
(* C7 *)

\* the subject a template yields for a name, written out for the templates of
\* the model
ExpectedSubject(template, name) ==
    CASE template = <<"C","N","=","{","C","N","}">> -> <<"C","N","=">> \o name
      [] template = <<"O","=","x">> -> <<"O","=","x">>
      [] template = <<"{","C","N","}",",","{","C","N">> ->
           name \o <<",","{","C","N">>

\* C7: after a successful batch the export holds one data row per name of
\* parse_cn_range, the i-th row belongs to the i-th name (its subject is the
\* template with {CN} replaced by that name, its request names that name), and
\* the result has success = true, total = the number of names and the output
\* path of the request.
C7_OneRowPerNameInOrder ==
    pc = "done" =>
        LET names == parse_cn_range(params.cn_range).names
        IN  /\ file.created /\ file.complete
            /\ Len(DataRows) = Len(names)
            /\ \A i \in 1..Len(names) :
                 /\ DataRows[i][ColumnOf("subject")] =
                      ExpectedSubject(params.subject_template, names[i])
                 /\ DataRows[i][ColumnOf("csr")].subject_cn = names[i]
            /\ ret.ok /\ ret.success
            /\ ret.total = Len(names)
            /\ ret.message[2] = Len(names)
            /\ ret.output_path = params.output_path

\* the batch "A3-A1" with the template CN={CN} has exported A1, A2, A3
C7_Witness ==
    /\ pc = "done"
    /\ params.cn_range = <<"A", "3", "-", "A", "1">>
    /\ params.subject_template = <<"C","N","=","{","C","N","}">>
    /\ ret.total = 3
    /\ DataRows[1][1] = <<"C","N","=","A","1">>
    /\ DataRows[3][1] = <<"C","N","=","A","3">>

----------------------------------------------------------------------------
(* C8 *)

\* C8 as stated: every name is the first prefix followed by a number rendered
\* at exactly the width of the first number's literal: shorter numbers are
\* zero-padded to it, longer ones truncated to it.
C8_FixedWidthPaddedOrTruncated ==
    (pc = "range_done" /\ ValidRange(params.cn_range)) =>
        LET c == Captures(params.cn_range)
        IN  \A k \in 1..Len(cn_list) :
              /\ SubSeq(cn_list[k], 1, Len(c.prefix1)) = c.prefix1
              /\ Len(cn_list[k]) = Len(c.prefix1) + Len(c.num_str1)

\* C8 amended: every name is the first prefix followed by the number
\* min(a,b)+k-1 in decimal, zero-padded on the left to the width of the first
\* number's literal when it has fewer digits, and written in full, never
\* truncated, when it has more.
C8_FirstWidthIsMinimum ==
    (pc = "range_done" /\ ValidRange(params.cn_range)) =>
        LET c  == Captures(params.cn_range)
            lo == Min(FirstNumber(params.cn_range), SecondNumber(params.cn_range))
            pl == Len(c.prefix1)
        IN  /\ ret.ok
            /\ \A k \in 1..Len(cn_list) :
                 LET ds == Suffix(cn_list[k], pl)
                 IN  /\ SubSeq(cn_list[k], 1, pl) = c.prefix1
                     /\ IsNumeral(ds)
                     /\ DigitsValue(ds) = lo + k - 1
                     /\ Len(ds) = Max(Len(c.num_str1), NumDigits(lo + k - 1))
                     /\ \A z \in 1..(Len(ds) - NumDigits(lo + k - 1)) : ds[z] = "0"

\* "A9-A10": the width is one, and the second name is A10 in full
C8_Witness ==
    /\ pc = "range_done"
    /\ params.cn_range = <<"A", "9", "-", "A", "1", "0">>
    /\ cn_list = << <<"A", "9">>, <<"A", "1", "0">> >>

----------------------------------------------------------------------------
(* C9 *)

\* C9: generate_csr is invoked at most once per expanded name, in expansion
\* order; after a successful batch the number of key generations equals the
\* number of exported rows, every row's request carries the public half of
\* the row's own private key, and no two rows share a key pair although all
\* rows have the same key algorithm.
C9_OneFreshKeyPerName ==
    /\ Len(calls) <= Len(cn_list)
    /\ \A k \in 1..Len(calls) : calls[k] = cn_list[k]
    /\ pc = "done" =>
         /\ keygens = Len(DataRows)
         /\ Len(calls) = Len(DataRows)
         /\ \A i \in 1..Len(DataRows) :
              /\ DataRows[i][ColumnOf("csr")].pubkey =
                   DataRows[i][ColumnOf("privateKey")]
              /\ DataRows[i][ColumnOf("csr")].signed_by =
                   DataRows[i][ColumnOf("privateKey")]
              /\ DataRows[i][ColumnOf("keyPairType")] =
                   DataRows[1][ColumnOf("keyPairType")]
         /\ \A i, j \in 1..Len(DataRows) :
              i # j => DataRows[i][ColumnOf("privateKey")] #
                       DataRows[j][ColumnOf("privateKey")]

\* a successful batch of three names of one algorithm
C9_Witness ==
    /\ pc = "done"
    /\ Len(DataRows) = 3
    /\ keygens = 3
    /\ params.key_type = "RSA_2048"
    /\ DataRows[3][ColumnOf("privateKey")].id = 3

----------------------------------------------------------------------------
(* C10 *)

\* C10: a successful parse_cn_range never yields an empty list, so the
\* empty-range rejection of generate_csr_batch_internal is never taken and
\* every successful batch reports total >= 1.
C10_EmptyRangeUnreachable ==
    /\ ret.err # "EmptyRange"
    /\ parse_cn_range(params.cn_range).ok =>
         Len(parse_cn_range(params.cn_range).names) >= 1
    /\ pc \in {"loop", "write", "done"} => Len(cn_list) >= 1
    /\ pc = "done" => ret.total >= 1

\* a batch whose range was written descending has succeeded
C10_Witness ==
    /\ pc = "done"
    /\ params.cn_range = <<"b", "1", "-", "A", "0">>
    /\ ret.total = 2

====
